---- MODULE Spec2Model ----
(***************************************************************************)
(* EdgeCheck worker: the per-day latency histogram kept in the EDGE_STATS  *)
(* KV namespace, the read-modify-write of recordRun, the rank query of     *)
(* getPercentile, the /leaderboard load, and the pure helpers bucketIndex  *)
(* and percentileFromHist.                                                 *)
(*                                                                         *)
(* Conventions.  A JS number that may be fractional (cf.clientTcpRtt) is   *)
(* kept in halves of a millisecond: h stands for h/2 ms.  Array indices    *)
(* are the source's 0-based indices; the TLA+ sequence element of index i  *)
(* is seq[i + 1].  null and undefined are the strings below.               *)
(***************************************************************************)
EXTENDS Integers, Sequences, FiniteSets, TLC

\* ---------------------------------------------------------------- bounds
NumCalls == 2
NumDays == 2
\* edge sequences the pure helpers are applied to
MaxEdgeLen == 3
MaxEdgeVal == 4

\* ------------------------------------------------------------- JS values
Undefined == "undefined"

\* cf.clientTcpRtt: absent, NaN, or a finite number given in halves of a ms
RttAbsent == [k |-> "undefined", h |-> 0]
RttNaN == [k |-> "NaN", h |-> 0]
Num(h) == [k |-> "num", h |-> h]

\* faulty variant of NoRttSignal: NaN is let through
NoRttSignalNullOnly(rtt) == rtt.k = "undefined"

\* edgeRtt == null || Number.isNaN(edgeRtt)
NoRttSignal(rtt) == rtt.k = "undefined" \/ rtt.k = "NaN"

\* Math.round of a finite number given in halves: floor(x + 0.5)
MathRound(h) == (h + 1) \div 2

DEFAULT_EDGES == <<5, 10, 15, 20, 30, 40, 60, 80, 100, 120, 150, 200, 300, 500, 1000>>

\* ---------------------------------------------------------- bucketIndex
RECURSIVE bucketIndexFrom(_, _, _)
bucketIndexFrom(i, rtt, edges) ==
  IF i < Len(edges)
    THEN IF rtt <= edges[i + 1] THEN i ELSE bucketIndexFrom(i + 1, rtt, edges)
    ELSE Len(edges)

\* faulty variants of bucketIndex: an exclusive edge, a flipped comparison
RECURSIVE bucketIndexLtFrom(_, _, _)
bucketIndexLtFrom(i, rtt, edges) ==
  IF i < Len(edges)
    THEN IF rtt < edges[i + 1] THEN i ELSE bucketIndexLtFrom(i + 1, rtt, edges)
    ELSE Len(edges)

bucketIndexLt(rtt, edges) == bucketIndexLtFrom(0, rtt, edges)

RECURSIVE bucketIndexGeFrom(_, _, _)
bucketIndexGeFrom(i, rtt, edges) ==
  IF i < Len(edges)
    THEN IF rtt >= edges[i + 1] THEN i ELSE bucketIndexGeFrom(i + 1, rtt, edges)
    ELSE Len(edges)

bucketIndexGe(rtt, edges) == bucketIndexGeFrom(0, rtt, edges)

\* faulty variant of bucketIndex: the overflow index is edges.length + 1
bucketIndexPastEnd(rtt, edges) ==
  IF \E i \in 1..Len(edges) : rtt <= edges[i]
    THEN bucketIndexFrom(0, rtt, edges)
    ELSE Len(edges) + 1

bucketIndex(rtt, edges) == bucketIndexFrom(0, rtt, edges)

\* ------------------------------------------- IEEE 754 double arithmetic
\* 2^e for small e, and 2^e modulo m
RECURSIVE Pow2(_)
Pow2(e) == IF e <= 0 THEN 1 ELSE 2 * Pow2(e - 1)

RECURSIVE Pow2Mod(_, _)
Pow2Mod(e, m) ==
  IF e <= 0 THEN 1 % m
  ELSE LET h == Pow2Mod(e \div 2, m)
       IN IF e % 2 = 0 THEN (h * h) % m ELSE (2 * h * h) % m

\* floor(log2 k) for k >= 1
RECURSIVE ILog2(_)
ILog2(k) == IF k < 2 THEN 0 ELSE 1 + ILog2(k \div 2)

\* for 0 < n <= d: the a >= 0 with n/d in [2^-a, 2^-(a-1))
RECURSIVE BinadeFrom(_, _, _)
BinadeFrom(a, n, d) == IF n * Pow2(a) >= d THEN a ELSE BinadeFrom(a + 1, n, d)

Binade(n, d) == BinadeFrom(0, n, d)

\* The double nearest to n/d (0 < n <= d) is M / 2^E with E = 52 + Binade(n, d)
\* and M the integer nearest to n * 2^E / d.  QuotientError is d*M - n*2^E:
\* positive when the quotient was rounded up, negative when rounded down.
\* (A tie cannot happen: n/d would then be a short dyadic number, exact.)
QuotientError(n, d) ==
  LET r == (n * Pow2Mod(52 + Binade(n, d), d)) % d
  IN IF 2 * r < d THEN 0 - r ELSE d - r

\* Math.ceil((targetPct / 100) * samples) in double arithmetic, samples >= 1.
\* The product is within a few ulps of targetPct*samples/100; when that is
\* not an integer the ceiling is unaffected, when it is the integer k the
\* product is the double nearest to k + QuotientError*samples/(100 * 2^E),
\* which lies above k exactly when the excess is more than half an ulp of k.
CeilPctOfSamples(targetPct, samples) ==
  LET T == targetPct * samples
      k == T \div 100
  IN IF T % 100 # 0 THEN k + 1
     ELSE IF k = 0 \/ targetPct >= 100 THEN k
     ELSE IF QuotientError(targetPct, 100) * samples
               > 100 * Pow2(Binade(targetPct, 100) + ILog2(k) - 1)
            THEN k + 1
            ELSE k

\* Math.round((countLe / samples) * 100) in double arithmetic, samples >= 1.
\* Off the exact value only when 100*countLe/samples is k + 1/2 and the
\* product fell below it by more than half an ulp: Math.round then gives k.
RoundRatioTimes100(countLe, samples) ==
  LET exact == (200 * countLe + samples) \div (2 * samples)
      twoV == (200 * countLe) \div samples
      j == ILog2(twoV) - 1
      jb == IF twoV = Pow2(ILog2(twoV)) THEN j - 1 ELSE j
  IN IF countLe <= 0 \/ countLe >= samples THEN exact
     ELSE IF (200 * countLe) % samples # 0 \/ twoV % 2 = 0 THEN exact
     ELSE IF (0 - 200) * QuotientError(countLe, samples)
               > samples * Pow2(Binade(countLe, samples) + jb)
            THEN exact - 1
            ELSE exact

\* --------------------------------------------------- percentileFromHist
\* a result of type number | null
IntVal(n) == [k |-> "int", v |-> n]
NullVal == [k |-> "null", v |-> 0]

\* faulty variant of percentileWalk: the overflow sentinel is edges.length - 1 + 1
RECURSIVE percentileWalkLength(_, _, _, _, _)
percentileWalkLength(i, acc, targetRank, buckets, edges) ==
  IF i < Len(buckets)
    THEN IF acc + buckets[i + 1] >= targetRank
           THEN IF i < Len(edges) THEN IntVal(edges[i + 1])
                                  ELSE IntVal(Len(edges) - 1 + 1)
           ELSE percentileWalkLength(i + 1, acc + buckets[i + 1], targetRank, buckets, edges)
    ELSE NullVal

\* faulty variant of percentileWalk: the rank must be exceeded, acc > targetRank
RECURSIVE percentileWalkStrict(_, _, _, _, _)
percentileWalkStrict(i, acc, targetRank, buckets, edges) ==
  IF i < Len(buckets)
    THEN IF acc + buckets[i + 1] > targetRank
           THEN IF i < Len(edges) THEN IntVal(edges[i + 1])
                                  ELSE IntVal(edges[Len(edges)] + 1)
           ELSE percentileWalkStrict(i + 1, acc + buckets[i + 1], targetRank, buckets, edges)
    ELSE NullVal

RECURSIVE percentileWalk(_, _, _, _, _)
percentileWalk(i, acc, targetRank, buckets, edges) ==
  IF i < Len(buckets)
    THEN IF acc + buckets[i + 1] >= targetRank
           THEN IF i < Len(edges) THEN IntVal(edges[i + 1])
                                  ELSE IntVal(edges[Len(edges)] + 1)
           ELSE percentileWalk(i + 1, acc + buckets[i + 1], targetRank, buckets, edges)
    ELSE NullVal

percentileFromHist(samples, buckets, edges, targetPct) ==
  IF samples <= 0 THEN NullVal
  ELSE percentileWalk(0, 0, CeilPctOfSamples(targetPct, samples), buckets, edges)

\* ------------------------------------------------ the stored aggregate
\* type Stored.  colo is kept as the sequence of its entries in insertion
\* order (the order Object.entries and JSON.stringify enumerate them); an
\* entry is [name, count, sumRtt] with an optional country.
\* faulty variant of DefaultStored: one bucket per edge, the overflow bucket forgotten
DefaultStoredNoOverflow ==
  [samples |-> 0,
   buckets |-> [i \in 1..Len(DEFAULT_EDGES) |-> 0],
   bucketEdges |-> DEFAULT_EDGES,
   colo |-> <<>>]

DefaultStored ==
  [samples |-> 0,
   buckets |-> [i \in 1..(Len(DEFAULT_EDGES) + 1) |-> 0],
   bucketEdges |-> DEFAULT_EDGES,
   colo |-> <<>>]

\* v.country of an entry: undefined when the property is missing
CountryOf(e) == IF "country" \in DOMAIN e THEN e.country ELSE Undefined

\* index (1-based) of the entry named name, 0 when stored.colo[name] is undefined
ColoPos(colo, name) ==
  IF \E i \in 1..Len(colo) : colo[i].name = name
    THEN CHOOSE i \in 1..Len(colo) : colo[i].name = name
    ELSE 0

\* cf.colo ?? DASH, where "--" stands for the source's em-dash sentinel
ColoKey(cf) == IF cf.colo = Undefined THEN "--" ELSE cf.colo

\* ------------------------------------------------------ the KV values
\* What EDGE_STATS.get(key) resolves to: null for an absent key, else the
\* stored text.  Texts are the empty string, a text that is not JSON, the
\* JSON text "{}" (parses, but is no aggregate), or the JSON text of an
\* aggregate.
KVAbsent == [t |-> "absent"]
KVEmpty == [t |-> "empty"]
KVNotJson == [t |-> "notjson"]
KVWrongShape == [t |-> "wrongshape"]
NoValue == [t |-> "none"]

\* JSON.stringify(stored): a property whose value is undefined is left out
StringifyEntry(e) ==
  IF CountryOf(e) = Undefined
    THEN [name |-> e.name, count |-> e.count, sumRtt |-> e.sumRtt]
    ELSE [name |-> e.name, count |-> e.count, sumRtt |-> e.sumRtt, country |-> e.country]

JSONStringify(stored) ==
  [t |-> "json",
   samples |-> stored.samples,
   buckets |-> stored.buckets,
   bucketEdges |-> stored.bucketEdges,
   colo |-> [i \in 1..Len(stored.colo) |-> StringifyEntry(stored.colo[i])]]

\* JSON.parse(storedStr) of the JSON text of an aggregate
JSONParse(storedStr) ==
  [samples |-> storedStr.samples,
   buckets |-> storedStr.buckets,
   bucketEdges |-> storedStr.bucketEdges,
   colo |-> storedStr.colo]

\* storedStr ? ... : ...   (null and "" are falsy)
Truthy(storedStr) == storedStr.t \notin {"absent", "empty"}

\* JSON.parse throws a SyntaxError on a text that is not JSON; "{}" parses
\* to an object without bucketEdges and buckets, and the first use of
\* edges.length / buckets.length on it throws a TypeError.
LoadThrows(storedStr) == storedStr.t \in {"notjson", "wrongshape"}

\* const stored: Stored = storedStr ? JSON.parse(storedStr) : { ...empty... }
LoadStored(storedStr) ==
  IF Truthy(storedStr) THEN JSONParse(storedStr) ELSE DefaultStored

\* ------------------------------------------------------------ recordRun
\* faulty variant of coloEntryUpdate: c.count += 1 is missing
coloEntryNoCount(c, h, cf) ==
  [name |-> c.name, count |-> c.count,
   sumRtt |-> c.sumRtt + MathRound(h), country |-> cf.country]

\* faulty variant of coloEntryUpdate: c.country = cf.country is missing
coloEntryKeepCountry(c, h, cf) ==
  [name |-> c.name, count |-> c.count + 1,
   sumRtt |-> c.sumRtt + MathRound(h), country |-> CountryOf(c)]

\* lines 85-87: c.count += 1; c.sumRtt += Math.round(edgeRtt); c.country = cf.country
coloEntryUpdate(c, h, cf) ==
  [name |-> c.name, count |-> c.count + 1,
   sumRtt |-> c.sumRtt + MathRound(h), country |-> cf.country]

\* faulty variant of recordRunUpdate: the bucket is found for Math.floor(edgeRtt)
recordRunUpdateFloor(stored, h, cf) ==
  LET idx == bucketIndex(h \div 2, stored.bucketEdges)
      name == ColoKey(cf)
      pos == ColoPos(stored.colo, name)
      c == IF pos = 0
             THEN [name |-> name, count |-> 0, sumRtt |-> 0, country |-> cf.country]
             ELSE stored.colo[pos]
  IN [samples |-> stored.samples + 1,
      buckets |-> IF idx < Len(stored.buckets)
                    THEN [stored.buckets EXCEPT ![idx + 1] = @ + 1]
                    ELSE Append(stored.buckets, 1),
      bucketEdges |-> stored.bucketEdges,
      colo |-> IF pos = 0 THEN Append(stored.colo, coloEntryUpdate(c, h, cf))
                          ELSE [stored.colo EXCEPT ![pos] = coloEntryUpdate(c, h, cf)]]

\* lines 79-88: the in-place update of the loaded aggregate by one sample
\* whose RTT is the finite number h/2 ms
recordRunUpdate(stored, h, cf) ==
  LET idx == bucketIndex(MathRound(h), stored.bucketEdges)
      name == ColoKey(cf)
      pos == ColoPos(stored.colo, name)
      c == IF pos = 0
             THEN [name |-> name, count |-> 0, sumRtt |-> 0, country |-> cf.country]
             ELSE stored.colo[pos]
  IN [samples |-> stored.samples + 1,
      buckets |-> IF idx < Len(stored.buckets)
                    THEN [stored.buckets EXCEPT ![idx + 1] = @ + 1]
                    ELSE Append(stored.buckets, 1),
      bucketEdges |-> stored.bucketEdges,
      colo |-> IF pos = 0 THEN Append(stored.colo, coloEntryUpdate(c, h, cf))
                          ELSE [stored.colo EXCEPT ![pos] = coloEntryUpdate(c, h, cf)]]

\* -------------------------------------------------------- getPercentile
Min(a, b) == IF a <= b THEN a ELSE b
Max(a, b) == IF a >= b THEN a ELSE b

\* faulty variant of countLeFrom: the bucket of the RTT itself is left out
RECURSIVE countLeFromBelow(_, _, _)
countLeFromBelow(i, buckets, idx) ==
  IF i < Len(buckets)
    THEN (IF i < idx THEN buckets[i + 1] ELSE 0) + countLeFromBelow(i + 1, buckets, idx)
    ELSE 0

\* lines 106-110: the sum of buckets[i] for i <= idx
RECURSIVE countLeFrom(_, _, _)
countLeFrom(i, buckets, idx) ==
  IF i < Len(buckets)
    THEN (IF i <= idx THEN buckets[i + 1] ELSE 0) + countLeFrom(i + 1, buckets, idx)
    ELSE 0

\* lines 105-113, for the finite RTT h/2 ms
getPercentileResult(stored, h, day) ==
  LET idx == bucketIndex(MathRound(h), stored.bucketEdges)
      countLe == countLeFrom(0, stored.buckets, idx)
      fasterThan == IF stored.samples > 0
                      THEN Max(0, Min(100, RoundRatioTimes100(countLe, stored.samples)))
                      ELSE 0
  IN [t |-> "rank", fasterThanPct |-> fasterThan, samples |-> stored.samples, day |-> day]

\* ---------------------------------------------------------- /leaderboard
\* Math.round(sumRtt / count) for count > 0.  The quotient of two integers
\* is a half-integer only when it is exactly representable, so the double
\* division does not move the result: floor(sumRtt/count + 1/2).
RoundQuotient(sumRtt, count) == (2 * sumRtt + count) \div (2 * count)

\* line 146: the row of one colo entry
TopRow(e) ==
  [colo |-> e.name, count |-> e.count,
   avgRtt |-> IF e.count # 0 THEN IntVal(RoundQuotient(e.sumRtt, e.count)) ELSE NullVal,
   country |-> CountryOf(e)]

\* faulty variant of InsertByCount: the comparator is a.count - b.count
RECURSIVE InsertByCountAscending(_, _)
InsertByCountAscending(row, sorted) ==
  IF sorted = <<>> THEN <<row>>
  ELSE IF Head(sorted).count <= row.count
         THEN <<Head(sorted)>> \o InsertByCountAscending(row, Tail(sorted))
         ELSE <<row>> \o sorted

\* line 147: Array.prototype.sort((a, b) => b.count - a.count), a stable sort
RECURSIVE InsertByCount(_, _)
InsertByCount(row, sorted) ==
  IF sorted = <<>> THEN <<row>>
  ELSE IF Head(sorted).count >= row.count
         THEN <<Head(sorted)>> \o InsertByCount(row, Tail(sorted))
         ELSE <<row>> \o sorted

RECURSIVE SortByCount(_)
SortByCount(rows) ==
  IF rows = <<>> THEN <<>>
  ELSE InsertByCount(rows[Len(rows)], SortByCount(SubSeq(rows, 1, Len(rows) - 1)))

TopLimit == 15

\* lines 145-148: Object.entries(stored.colo).map(...).sort(...).slice(0, 15)
topColosOf(colo) ==
  LET rows == [i \in 1..Len(colo) |-> TopRow(colo[i])]
      sorted == SortByCount(rows)
  IN SubSeq(sorted, 1, Min(TopLimit, Len(sorted)))

\* lines 141-156: the data of the leaderboard page
leaderboardData(stored) ==
  [t |-> "board",
   samples |-> stored.samples,
   p50 |-> percentileFromHist(stored.samples, stored.buckets, stored.bucketEdges, 50),
   p90 |-> percentileFromHist(stored.samples, stored.buckets, stored.bucketEdges, 90),
   p99 |-> percentileFromHist(stored.samples, stored.buckets, stored.bucketEdges, 99),
   topColos |-> topColosOf(stored.colo)]

\* ---------------------------------------------------------------- state
VARIABLES
  store,    \* EDGE_STATS: key -> what get(key) resolves to
  today,    \* the UTC day todayKey() returns now
  calls,    \* the invocations of recordRun / getPercentile / the leaderboard
  lastPut,  \* history: key -> the call whose put was applied last (0: none)
  initial,  \* history: the store at the start
  fn        \* an application of a pure helper: its inputs and its result

vars == <<store, today, calls, lastPut, initial, fn>>

Days == 1..NumDays
CallIds == 1..NumCalls

\* `stats:${day}`
Key(day) == <<"stats:", day>>
Keys == {Key(d) : d \in Days}

\* the request's cf object, as far as recordRun reads it
NoCf == [colo |-> Undefined, country |-> Undefined]
CfInputs == {[colo |-> "SJC", country |-> "US"], NoCf}

\* -1.5 ms (rounds to -1), 1001 ms (overflow)
RttInputs == {RttAbsent, RttNaN, Num(0 - 3), Num(2002)}

\* samples of the same RTT and cf recorded one after the other until the
\* aggregate holds total samples
RECURSIVE RecordUntil(_, _, _, _)
RecordUntil(stored, total, h, cf) ==
  IF stored.samples >= total THEN stored
  ELSE RecordUntil(recordRunUpdate(stored, h, cf), total, h, cf)

\* n further samples of the same RTT and cf recorded one after the other
RecordMany(stored, n, h, cf) == RecordUntil(stored, stored.samples + n, h, cf)

\* a day on which 23 samples of 4.5 ms and 17 of 1001 ms were recorded
BusyDay ==
  RecordMany(RecordMany(DefaultStored, 23, 9, [colo |-> "SJC", country |-> "CA"]),
             17, 2002, [colo |-> "LHR", country |-> "GB"])

\* what today's key may hold when the worker starts
InitialValues == {KVAbsent, KVEmpty, KVNotJson, KVWrongShape, JSONStringify(BusyDay)}

\* partner: for the getPercentile of an /api request, the call that is the
\* recordRun of the same request (0 otherwise)
IdleCall ==
  [op |-> "none", pc |-> "idle", edgeRtt |-> RttAbsent, cf |-> NoCf, day |-> 0,
   storedStr |-> NoValue, stored |-> NoValue, result |-> NoValue, partner |-> 0]

NoFn == [name |-> "none"]

Init ==
  /\ \E v \in InitialValues :
        store = [k \in Keys |-> IF k = Key(1) THEN v ELSE KVAbsent]
  /\ today = 1
  /\ calls = [c \in CallIds |-> IdleCall]
  /\ lastPut = [k \in Keys |-> 0]
  /\ initial = store
  /\ fn = NoFn

\* calls are taken in the order of their ids
CanStart(c) ==
  /\ calls[c].pc = "idle"
  /\ IF c = 1 THEN TRUE ELSE calls[c - 1].pc # "idle"

\* recordRun, lines 65-71: the guard, the key, and the get is issued
RecordStarted(call, edgeRtt, cf, day) ==
  IF NoRttSignal(edgeRtt)
    THEN [call EXCEPT !.op = "record", !.pc = "done", !.edgeRtt = edgeRtt]
    ELSE [call EXCEPT !.op = "record", !.pc = "get", !.edgeRtt = edgeRtt, !.cf = cf,
                      !.day = day]

\* getPercentile, lines 93-97
PeekStarted(call, edgeRtt, day) ==
  IF NoRttSignal(edgeRtt)
    THEN [call EXCEPT !.op = "peek", !.pc = "done", !.edgeRtt = edgeRtt,
                      !.result = [t |-> "null"]]
    ELSE [call EXCEPT !.op = "peek", !.pc = "get", !.edgeRtt = edgeRtt, !.day = day]

\* the landing page, line 337: ctx.waitUntil(recordRun(env, cf, edgeRtt))
StartRecord(c, edgeRtt, cf) ==
  /\ CanStart(c)
  /\ calls' = [calls EXCEPT ![c] = RecordStarted(@, edgeRtt, cf, today)]
  /\ UNCHANGED <<store, today, lastPut, initial, fn>>

\* getPercentile on its own
StartPeek(c, edgeRtt) ==
  /\ CanStart(c)
  /\ calls' = [calls EXCEPT ![c] = PeekStarted(@, edgeRtt, today)]
  /\ UNCHANGED <<store, today, lastPut, initial, fn>>

\* /api, lines 229-230: recordRun is called and runs up to its get, its
\* promise is handed to ctx.waitUntil; then getPercentile is called for the
\* same RTT and runs up to its get, and the handler awaits it
StartApi(c, edgeRtt, cf) ==
  /\ c + 1 \in CallIds
  /\ CanStart(c)
  /\ calls' = [calls EXCEPT
        ![c] = RecordStarted(@, edgeRtt, cf, today),
        ![c + 1] = [PeekStarted(@, edgeRtt, today) EXCEPT !.partner = c]]
  /\ UNCHANGED <<store, today, lastPut, initial, fn>>

\* fetch, /leaderboard, lines 131-133
StartBoard(c, day) ==
  /\ CanStart(c)
  /\ calls' = [calls EXCEPT ![c] = [@ EXCEPT !.op = "board", !.pc = "get", !.day = day]]
  /\ UNCHANGED <<store, today, lastPut, initial, fn>>

\* faulty variant of AfterLoadPc: every operation saves what it loaded
AfterLoadPcPut(op) == "put"

\* where a call stands once it has loaded: recordRun at its put (line 90),
\* getPercentile and the leaderboard have no put and return
AfterLoadPc(op) == IF op = "record" THEN "put" ELSE "done"

\* what a call does with the text its get resolved to, up to its next await
AfterGet(call, storedStr) ==
  IF LoadThrows(storedStr)
    THEN [call EXCEPT !.pc = "error", !.storedStr = storedStr]
  ELSE IF call.op = "record"
    THEN LET updated == recordRunUpdate(LoadStored(storedStr), call.edgeRtt.h, call.cf)
         IN [call EXCEPT !.pc = AfterLoadPc(call.op), !.storedStr = storedStr,
                         !.stored = updated]
  ELSE IF call.op = "peek"
    THEN [call EXCEPT !.pc = AfterLoadPc(call.op), !.storedStr = storedStr,
                      !.stored = LoadStored(storedStr),
                      !.result = getPercentileResult(LoadStored(storedStr),
                                                     call.edgeRtt.h, call.day)]
  ELSE [call EXCEPT !.pc = AfterLoadPc(call.op), !.storedStr = storedStr,
                    !.stored = LoadStored(storedStr),
                    !.result = leaderboardData(LoadStored(storedStr))]

\* env.EDGE_STATS.get(key) resolves and the call runs on
Get(c) ==
  /\ calls[c].pc = "get"
  /\ calls' = [calls EXCEPT ![c] = AfterGet(@, store[Key(calls[c].day)])]
  /\ UNCHANGED <<store, today, lastPut, initial, fn>>

\* env.EDGE_STATS.get(key) rejects
GetFail(c) ==
  /\ calls[c].pc = "get"
  /\ calls' = [calls EXCEPT ![c] = [@ EXCEPT !.pc = "error"]]
  /\ UNCHANGED <<store, today, lastPut, initial, fn>>

\* faulty variant of PutOutcome: a put that never replaces an existing value
PutOutcomeIfAbsent(cur, value) == IF cur.t = "absent" THEN value ELSE cur

\* faulty variant of PutOutcome: samples is incremented in place in the store,
\* the rest of the aggregate is replaced
PutOutcomeAddSample(cur, value) ==
  IF cur.t = "json" THEN [value EXCEPT !.samples = cur.samples + 1] ELSE value

\* what the key holds once put(key, value) is applied to a key holding cur
PutOutcome(cur, value) == value

\* faulty variant of PutKey: the key is built again from todayKey() at the put
PutKeyNow(call, now) == Key(now)

\* the key of the put, line 90: the const key of line 70, built from the
\* day todayKey() returned when the call started, whatever the day is now
PutKey(call, now) == Key(call.day)

\* env.EDGE_STATS.put(key, JSON.stringify(stored)) is applied, recordRun returns
Put(c) ==
  /\ calls[c].pc = "put"
  /\ store' = [store EXCEPT ![PutKey(calls[c], today)] =
                  PutOutcome(@, JSONStringify(calls[c].stored))]
  /\ lastPut' = [lastPut EXCEPT ![PutKey(calls[c], today)] = c]
  /\ calls' = [calls EXCEPT ![c] = [@ EXCEPT !.pc = "done"]]
  /\ UNCHANGED <<today, initial, fn>>

\* env.EDGE_STATS.put rejects
PutFail(c) ==
  /\ calls[c].pc = "put"
  /\ calls' = [calls EXCEPT ![c] = [@ EXCEPT !.pc = "error"]]
  /\ UNCHANGED <<store, today, lastPut, initial, fn>>

\* midnight UTC passes
Tick ==
  /\ today < NumDays
  /\ today' = today + 1
  /\ UNCHANGED <<store, calls, lastPut, initial, fn>>

Next ==
  \/ \E c \in CallIds, edgeRtt \in RttInputs, cf \in CfInputs : StartRecord(c, edgeRtt, cf)
  \/ \E c \in CallIds, edgeRtt \in RttInputs, cf \in CfInputs : StartApi(c, edgeRtt, cf)
  \/ \E c \in CallIds, edgeRtt \in RttInputs : StartPeek(c, edgeRtt)
  \/ \E c \in CallIds, day \in Days : StartBoard(c, day)
  \/ \E c \in CallIds : Get(c)
  \/ \E c \in CallIds : Put(c)
  \/ Tick

Spec == Init /\ [][Next]_vars

\* ------------------------------------------- a store that may fail
\* landing-page and /api requests over a store whose get and put may reject
NextFaulty ==
  \/ \E c \in CallIds, edgeRtt \in RttInputs, cf \in CfInputs : StartRecord(c, edgeRtt, cf)
  \/ \E c \in CallIds, edgeRtt \in RttInputs, cf \in CfInputs : StartApi(c, edgeRtt, cf)
  \/ \E c \in CallIds : Get(c)
  \/ \E c \in CallIds : Put(c)
  \/ \E c \in CallIds : GetFail(c)
  \/ \E c \in CallIds : PutFail(c)
  \/ Tick

SpecFaulty == Init /\ [][NextFaulty]_vars

\* faulty variant of Awaited: the handler awaits recordRun as well
AwaitedAll(op) == TRUE

\* Whether the fetch handler awaits the operation.  recordRun's promise is
\* only handed to ctx.waitUntil (lines 229, 337), which takes its rejection;
\* getPercentile (line 230) and the leaderboard's get (line 133) are awaited
\* with no try/catch around them.
Awaited(op) == op \in {"peek", "board"}

\* the fetch handler that made call c ended by throwing
HandlerThrew(c) == calls[c].pc = "error" /\ Awaited(calls[c].op)

\* ------------------------------------------- recordRun calls only
\* landing-page requests alone: the recordRun calls of one day in any
\* interleaving
NextRecord ==
  \/ \E c \in CallIds, edgeRtt \in RttInputs, cf \in CfInputs : StartRecord(c, edgeRtt, cf)
  \/ \E c \in CallIds : Get(c)
  \/ \E c \in CallIds : Put(c)

SpecRecord == Init /\ [][NextRecord]_vars

\* ------------------------------------------- one call at a time
\* no call is between its start and its return
Quiescent == \A c \in CallIds : calls[c].pc \in {"idle", "done", "error"}

\* with two more RTTs: 4.5 ms (rounds to the edge 5) and 5.5 ms (rounds to 6)
SeqRttInputs == RttInputs \cup {Num(9), Num(11)}

NextSeq ==
  \/ \E c \in CallIds, edgeRtt \in SeqRttInputs, cf \in CfInputs :
        Quiescent /\ StartRecord(c, edgeRtt, cf)
  \/ \E c \in CallIds, edgeRtt \in SeqRttInputs : Quiescent /\ StartPeek(c, edgeRtt)
  \/ \E c \in CallIds, day \in Days : Quiescent /\ StartBoard(c, day)
  \/ \E c \in CallIds : Get(c)
  \/ \E c \in CallIds : Put(c)
  \/ Tick

SpecSeq == Init /\ [][NextSeq]_vars

\* ------------------------------------- the pure helpers on their own
\* ascending (not necessarily strictly) sequences over 0..MaxEdgeVal
RECURSIVE AscendingSeqs(_)
AscendingSeqs(n) ==
  IF n = 0 THEN {<<>>}
  ELSE LET shorter == AscendingSeqs(n - 1)
       IN shorter \cup
          {Append(e, x) : e \in {q \in shorter : Len(q) = n - 1}, x \in 0..MaxEdgeVal}

IsAscending(edges) == \A i \in 1..(Len(edges) - 1) : edges[i] <= edges[i + 1]
IsStrictlyAscending(edges) == \A i \in 1..(Len(edges) - 1) : edges[i] < edges[i + 1]

EdgeInputs == {e \in AscendingSeqs(MaxEdgeLen) : IsAscending(e)}
IntRttInputs == (0 - 1)..(MaxEdgeVal + 2)

RECURSIVE SumSeq(_)
SumSeq(q) == IF q = <<>> THEN 0 ELSE Head(q) + SumSeq(Tail(q))

\* histograms over the edges <<10>>, <<20>> and <<10, 20>>
HistEdges == {<<10>>, <<20>>, <<10, 20>>}
HistCounts == {0, 1, 2, 3, 5, 7, 18}
HistBuckets(edges) == [1..(Len(edges) + 1) -> HistCounts]
PctInputs == {0, 1, 28, 50, 56, 90, 99, 100}

\* the applications of bucketIndex and of percentileFromHist that are tried
BucketIndexInputs(edges) ==
  {[name |-> "bucketIndex", rtt1 |-> r1, rtt2 |-> r2, edges |-> edges, done |-> FALSE]
     : r1 \in IntRttInputs, r2 \in IntRttInputs}

PercentileInputs(edges) ==
  {[name |-> "percentileFromHist", samples |-> SumSeq(b), buckets |-> b,
    edges |-> edges, pct1 |-> p1, pct2 |-> p2, done |-> FALSE]
     : b \in HistBuckets(edges), p1 \in PctInputs, p2 \in PctInputs}

\* location maps for the leaderboard: every map of up to MaxColos entries
\* with the statistics below, and maps of 17 entries (more than the 15 listed)
MaxColos == 3
ColoNames == <<"AMS", "ATL", "BOM", "CDG", "DFW", "EWR", "FRA", "GRU", "HKG",
               "IAD", "JNB", "KIX", "LAX", "MAD", "NRT", "ORD", "SJC">>
EntryStats == {<<0, 0>>, <<1, 40>>, <<3, 90>>, <<2, 5>>, <<2, 0 - 3>>}

ColoEntry(i, st) ==
  [name |-> ColoNames[i], count |-> st[1], sumRtt |-> st[2], country |-> "US"]

SmallColos ==
  UNION {{[i \in 1..n |-> ColoEntry(i, f[i])] : f \in [1..n -> EntryStats]} : n \in 0..MaxColos}

LongColos ==
  {[i \in 1..Len(ColoNames) |-> ColoEntry(i, <<1 + ((i * m) % 4), 10 * i>>)] : m \in 0..3}

TopColosInputs(colos) == {[name |-> "topColos", colo |-> m, done |-> FALSE] : m \in colos}

\* days of recorded samples for the percentile estimate: n1 samples of 4 ms,
\* n2 of 5.5 ms, n3 of 24 ms and n4 of 1001 ms, recorded one after the other
GroupRtts == <<8, 11, 48, 2002>>
GroupCounts == {0, 1, 2, 7, 18}
SampleGroups == [1..Len(GroupRtts) -> GroupCounts]
EstimatePcts == {1, 28, 50, 56, 90, 99, 100}

RECURSIVE RecordGroups(_, _, _)
RecordGroups(stored, groups, i) ==
  IF i > Len(GroupRtts) THEN stored
  ELSE RecordGroups(RecordMany(stored, groups[i], GroupRtts[i], NoCf), groups, i + 1)

EstimateInputs ==
  {[name |-> "estimate", groups |-> g, pct |-> p, stored |-> NoValue, done |-> FALSE]
     : g \in SampleGroups, p \in EstimatePcts}

\* aggregates and RTTs for the rank: bucket counts that include 23 of 40, RTTs
\* (in halves of a ms) on both sides of the edges 10 and 20, and samples
\* equal to the bucket total or off it
RankCounts == {0, 1, 7, 17, 23}
RankRtts == {0 - 3, 19, 20, 21, 39, 40, 41, 2002}
RankSampleOffsets == {0, 3}

RankInputs(edges) ==
  {[name |-> "getPercentile", samples |-> SumSeq(b) + o, buckets |-> b, edges |-> edges,
    h1 |-> h1, h2 |-> h2, done |-> FALSE]
     : b \in [1..(Len(edges) + 1) -> RankCounts], o \in RankSampleOffsets,
       h1 \in RankRtts, h2 \in RankRtts}

InitFn ==
  /\ store = [k \in Keys |-> KVAbsent]
  /\ today = 1
  /\ calls = [c \in CallIds |-> IdleCall]
  /\ lastPut = [k \in Keys |-> 0]
  /\ initial = store
  /\ \/ \E e \in EdgeInputs : fn \in BucketIndexInputs(e)
     \/ \E e \in HistEdges : fn \in PercentileInputs(e)
     \/ fn \in TopColosInputs(SmallColos \cup LongColos)
     \/ fn \in EstimateInputs
     \/ \E e \in HistEdges : fn \in RankInputs(e)

ApplyBucketIndex ==
  /\ fn.name = "bucketIndex" /\ ~fn.done
  /\ fn' = [name |-> "bucketIndex", rtt1 |-> fn.rtt1, rtt2 |-> fn.rtt2,
             edges |-> fn.edges, done |-> TRUE,
             out1 |-> bucketIndex(fn.rtt1, fn.edges),
             out2 |-> bucketIndex(fn.rtt2, fn.edges)]
  /\ UNCHANGED <<store, today, calls, lastPut, initial>>

ApplyPercentile ==
  /\ fn.name = "percentileFromHist" /\ ~fn.done
  /\ fn' = [name |-> "percentileFromHist", samples |-> fn.samples,
             buckets |-> fn.buckets, edges |-> fn.edges,
             pct1 |-> fn.pct1, pct2 |-> fn.pct2, done |-> TRUE,
             out1 |-> percentileFromHist(fn.samples, fn.buckets, fn.edges, fn.pct1),
             out2 |-> percentileFromHist(fn.samples, fn.buckets, fn.edges, fn.pct2)]
  /\ UNCHANGED <<store, today, calls, lastPut, initial>>

ApplyTopColos ==
  /\ fn.name = "topColos" /\ ~fn.done
  /\ fn' = [name |-> "topColos", colo |-> fn.colo, done |-> TRUE,
             out |-> topColosOf(fn.colo)]
  /\ UNCHANGED <<store, today, calls, lastPut, initial>>

\* the samples are recorded into an empty day
ApplyRecordGroups ==
  /\ fn.name = "estimate" /\ fn.stored = NoValue
  /\ fn' = [fn EXCEPT !.stored = RecordGroups(DefaultStored, fn.groups, 1)]
  /\ UNCHANGED <<store, today, calls, lastPut, initial>>

\* then the percentile of the recorded aggregate is taken
ApplyEstimate ==
  /\ fn.name = "estimate" /\ fn.stored # NoValue /\ ~fn.done
  /\ fn' = [name |-> "estimate", groups |-> fn.groups, pct |-> fn.pct,
             stored |-> fn.stored, done |-> TRUE,
             samples |-> fn.stored.samples,
             out |-> percentileFromHist(fn.stored.samples, fn.stored.buckets,
                                        fn.stored.bucketEdges, fn.pct)]
  /\ UNCHANGED <<store, today, calls, lastPut, initial>>

\* getPercentile's rank of two RTTs against the same aggregate
ApplyRank ==
  /\ fn.name = "getPercentile" /\ ~fn.done
  /\ LET stored == [samples |-> fn.samples, buckets |-> fn.buckets,
                    bucketEdges |-> fn.edges, colo |-> <<>>]
     IN fn' = [name |-> "getPercentile", samples |-> fn.samples, buckets |-> fn.buckets,
                edges |-> fn.edges, h1 |-> fn.h1, h2 |-> fn.h2, done |-> TRUE,
                out1 |-> getPercentileResult(stored, fn.h1, 1).fasterThanPct,
                out2 |-> getPercentileResult(stored, fn.h2, 1).fasterThanPct]
  /\ UNCHANGED <<store, today, calls, lastPut, initial>>

NextFn ==
  \/ ApplyBucketIndex \/ ApplyPercentile \/ ApplyTopColos
  \/ ApplyRecordGroups \/ ApplyEstimate \/ ApplyRank

SpecFn == InitFn /\ [][NextFn]_vars

BucketApplied == fn.name = "bucketIndex" /\ fn.done
PercentileApplied == fn.name = "percentileFromHist" /\ fn.done
TopColosApplied == fn.name = "topColos" /\ fn.done
EstimateApplied == fn.name = "estimate" /\ fn.done
RankApplied == fn.name = "getPercentile" /\ fn.done

\* ------------------------------------------------------------ claims
\* the smallest i with rtt <= edges[i], len(edges) when there is none
SmallestQualifying(rtt, edges) ==
  IF \E i \in 1..Len(edges) : rtt <= edges[i]
    THEN (CHOOSE i \in 1..Len(edges) :
            /\ rtt <= edges[i]
            /\ \A j \in 1..(i - 1) : ~(rtt <= edges[j])) - 1
    ELSE Len(edges)

\* C3: for an ascending edge sequence bucketIndex returns the smallest i
\* with rtt <= edges[i], and len(edges) when no edge qualifies; on a
\* strictly ascending sequence every edge falls into its own bucket and
\* edges[last] + 1 falls into the overflow bucket.
C3_BucketIndexSmallest ==
  BucketApplied =>
    /\ fn.out1 = SmallestQualifying(fn.rtt1, fn.edges)
    /\ (IsStrictlyAscending(fn.edges) /\ fn.edges # <<>>) =>
          /\ \A i \in 1..Len(fn.edges) : bucketIndex(fn.edges[i], fn.edges) = i - 1
          /\ bucketIndex(fn.edges[Len(fn.edges)] + 1, fn.edges) = Len(fn.edges)

C3_Witness ==
  /\ BucketApplied
  /\ IsStrictlyAscending(fn.edges) /\ Len(fn.edges) = MaxEdgeLen
  /\ fn.rtt1 = fn.edges[2] /\ fn.out1 = 1
  /\ fn.rtt2 = fn.edges[Len(fn.edges)] + 1 /\ fn.out2 = Len(fn.edges)

\* C4: bucketIndex is monotone in the RTT: rtt1 <= rtt2 implies
\* bucketIndex(rtt1, edges) <= bucketIndex(rtt2, edges).
C4_BucketIndexMonotone ==
  (BucketApplied /\ fn.rtt1 <= fn.rtt2) => fn.out1 <= fn.out2

C4_Witness ==
  /\ BucketApplied
  /\ fn.rtt1 < fn.rtt2 /\ fn.out1 < fn.out2
  /\ fn.out1 > 0 /\ fn.out2 < Len(fn.edges)

\* the least integer not below pct * samples / 100
ExactRank(pct, samples) == (pct * samples + 99) \div 100

\* the sum buckets[0] + ... + buckets[i]
CumulativeCount(buckets, i) == SumSeq(SubSeq(buckets, 1, i + 1))

\* the first bucket whose cumulative count reaches rank (there is one)
FirstReaching(buckets, rank) ==
  CHOOSE i \in 0..(Len(buckets) - 1) :
    /\ CumulativeCount(buckets, i) >= rank
    /\ \A j \in 0..(i - 1) : CumulativeCount(buckets, j) < rank

\* the upper edge of bucket i, edges[last] + 1 for the overflow bucket
UpperEdge(edges, i) == IF i < Len(edges) THEN edges[i + 1] ELSE edges[Len(edges)] + 1

\* C5: for samples > 0 percentileFromHist returns the upper edge of the
\* first bucket whose cumulative count reaches ceil(targetPct/100 * samples),
\* and edges[last] + 1 when that bucket is the overflow bucket.
C5_PercentileAtExactRank ==
  (PercentileApplied /\ fn.samples > 0) =>
    fn.out1 = IntVal(UpperEdge(fn.edges,
                       FirstReaching(fn.buckets, ExactRank(fn.pct1, fn.samples))))

\* C6: percentileFromHist is monotone in the target percentile: for
\* p1 <= p2 with both results non-null the first result is at most the second.
C6_PercentileMonotone ==
  (PercentileApplied /\ fn.pct1 <= fn.pct2
     /\ fn.out1 # NullVal /\ fn.out2 # NullVal) => fn.out1.v <= fn.out2.v

C6_Witness ==
  /\ PercentileApplied
  /\ fn.pct1 < fn.pct2
  /\ fn.out1 # NullVal /\ fn.out2 # NullVal
  /\ fn.out1.v < fn.out2.v
  /\ fn.out2.v = fn.edges[Len(fn.edges)] + 1

\* sum of colo[loc].count over all locations
RECURSIVE SumCounts(_)
SumCounts(colo) == IF colo = <<>> THEN 0 ELSE Head(colo).count + SumCounts(Tail(colo))

Conserved(agg) ==
  /\ SumSeq(agg.buckets) = agg.samples
  /\ SumCounts(agg.colo) = agg.samples

\* C1: after any sequence of recordRun calls made one at a time, starting
\* from an absent key, the stored aggregate satisfies
\* sum(buckets) = samples = sum of colo[loc].count.
C1_Conservation ==
  \A k \in Keys :
    (initial[k] = KVAbsent /\ store[k].t = "json") => Conserved(store[k])

C1_Witness ==
  \E k \in Keys :
    /\ initial[k] = KVAbsent /\ store[k].t = "json"
    /\ store[k].samples = NumCalls
    /\ Len(store[k].colo) = 2
    /\ \E i, j \in 1..Len(store[k].buckets) :
          i # j /\ store[k].buckets[i] > 0 /\ store[k].buckets[j] > 0

\* the sample count of the aggregate a call loaded
BaseSamples(storedStr) == IF storedStr.t = "json" THEN storedStr.samples ELSE 0

\* recordRun call c has loaded, saved and returned
Recorded(c) ==
  calls[c].op = "record" /\ calls[c].pc = "done" /\ calls[c].stored # NoValue

\* C2: recordRun is not atomic: when two calls for the same day loaded the
\* same stored state and both completed their put, the stored samples count
\* is exactly 1 above the loaded base, so one sample is dropped.
C2_LostUpdate ==
  \A c1, c2 \in CallIds :
    (/\ c1 # c2 /\ Recorded(c1) /\ Recorded(c2)
     /\ calls[c1].day = calls[c2].day
     /\ calls[c1].storedStr = calls[c2].storedStr
     /\ lastPut[Key(calls[c1].day)] \in {c1, c2})
    => /\ store[Key(calls[c1].day)].t = "json"
       /\ store[Key(calls[c1].day)].samples = BaseSamples(calls[c1].storedStr) + 1

C2_Witness ==
  \E c1, c2 \in CallIds :
    /\ c1 # c2 /\ Recorded(c1) /\ Recorded(c2)
    /\ calls[c1].day = calls[c2].day
    /\ calls[c1].storedStr = calls[c2].storedStr
    /\ lastPut[Key(calls[c1].day)] = c2
    /\ store[Key(calls[c1].day)].samples = BaseSamples(calls[c1].storedStr) + 1

\* round(100 * countLe / samples) to the nearest integer, clamped to [0, 100]
ExactFasterThanPct(countLe, samples) ==
  Max(0, Min(100, (200 * countLe + samples) \div (2 * samples)))

\* C7: for a non-null, non-NaN RTT getPercentile returns samples equal to
\* the stored sample count and fasterThanPct = clamp(round(100 * (buckets[0]
\* + ... + buckets[idx]) / samples)) with idx = bucketIndex(round(rtt),
\* bucketEdges); with samples = 0 (also for a day without a record) it
\* returns fasterThanPct = 0.
C7_PeekRankValue ==
  \A c \in CallIds :
    (calls[c].op = "peek" /\ calls[c].pc = "done" /\ ~NoRttSignal(calls[c].edgeRtt))
    => LET agg == IF calls[c].storedStr.t = "json" THEN calls[c].storedStr
                                                    ELSE DefaultStored
           idx == bucketIndex(MathRound(calls[c].edgeRtt.h), agg.bucketEdges)
       IN /\ calls[c].result.samples = agg.samples
          /\ calls[c].result.fasterThanPct =
                IF agg.samples = 0 THEN 0
                ELSE ExactFasterThanPct(CumulativeCount(agg.buckets, idx), agg.samples)

\* a call's get has just resolved in this step
GetResolved(c) == calls[c].pc = "get" /\ calls'[c].storedStr # NoValue

\* C8: loading a day that has no stored record never fails and yields the
\* empty aggregate (samples 0, 16 zero buckets, the default edges, an empty
\* location map); the load writes nothing to the store.
C8_LoadAbsent ==
  [][\A c \in CallIds :
       (GetResolved(c) /\ calls[c].op \in {"peek", "board"}
          /\ store[Key(calls[c].day)] = KVAbsent)
       => /\ calls'[c].pc = "done"
          /\ calls'[c].stored.samples = 0
          /\ Len(calls'[c].stored.buckets) = Len(DEFAULT_EDGES) + 1
          /\ Len(calls'[c].stored.buckets) = 16
          /\ \A i \in 1..Len(calls'[c].stored.buckets) : calls'[c].stored.buckets[i] = 0
          /\ calls'[c].stored.bucketEdges = DEFAULT_EDGES
          /\ calls'[c].stored.colo = <<>>
          /\ store' = store
          /\ store'[Key(calls[c].day)] = KVAbsent]_vars

C8_Witness ==
  \E c \in CallIds :
    /\ calls[c].op = "board" /\ calls[c].pc = "done"
    /\ calls[c].storedStr = KVAbsent
    /\ calls[c].result.samples = 0 /\ calls[c].result.p50 = NullVal
    /\ store[Key(calls[c].day)] = KVAbsent

\* RTT is missing, not a number, or negative
InvalidSample(edgeRtt) == NoRttSignal(edgeRtt) \/ edgeRtt.h < 0

\* C9: recordRun called with an invalid RTT (missing, negative, or not a
\* finite number) is a no-op: it never changes the stored aggregate.
C9_InvalidSampleNoOp ==
  \A c \in CallIds :
    (calls[c].op = "record" /\ InvalidSample(calls[c].edgeRtt))
    => \A k \in Keys : lastPut[k] # c

\* the stored text does not deserialize into the aggregate shape
Corrupt(storedStr) == storedStr.t \in {"notjson", "wrongshape"}

\* C10: when the value under the day key does not deserialize into the
\* aggregate shape, recordRun, getPercentile and the leaderboard continue
\* from a fresh empty aggregate and none of them ends in an error.
C10_CorruptAsAbsent ==
  \A c \in CallIds :
    Corrupt(calls[c].storedStr) => calls[c].pc # "error"

\* the call ended because the store rejected its get or its put
StoreFailed(c) == calls[c].pc = "error" /\ ~Corrupt(calls[c].storedStr)

\* C11: no failure of the store's get or put during the recordRun or the
\* getPercentile of a landing-page or /api request makes that request end
\* in an error: the handler still returns its normal response.
C11_NoRequestFails ==
  \A c \in CallIds :
    (calls[c].op \in {"record", "peek"} /\ StoreFailed(c)) => ~HandlerThrew(c)

\* C12: a put that fails in recordRun is swallowed: the step leaves every
\* key of the store as it was, the call has written nothing, and the
\* handler that made the call does not throw.
C12_FailedPutSwallowed ==
  [][\A c \in CallIds :
       (calls[c].op = "record" /\ calls[c].pc = "put" /\ calls'[c].pc = "error")
       => /\ store' = store
          /\ \A k \in Keys : lastPut'[k] # c
          /\ ~HandlerThrew(c)']_vars

C12_Witness ==
  \E c \in CallIds :
    /\ calls[c].op = "record" /\ calls[c].pc = "error"
    /\ calls[c].stored # NoValue
    /\ calls[c].storedStr.t = "json"
    /\ store[Key(calls[c].day)] = calls[c].storedStr

\* C13: getPercentile is read-only: for every RTT argument and every stored
\* state, no step of a getPercentile call changes the value of any key, and
\* the call never puts.
C13_PeekReadOnly ==
  [][\A c \in CallIds :
       (calls'[c].op = "peek" /\ calls'[c] # calls[c])
       => /\ store' = store
          /\ \A k \in Keys : lastPut'[k] # c]_vars

C13_Witness ==
  \E c \in CallIds :
    /\ calls[c].op = "peek" /\ calls[c].pc = "done"
    /\ calls[c].result.t = "rank" /\ calls[c].result.samples > 0
    /\ store[Key(calls[c].day)] = calls[c].storedStr
    /\ \E c2 \in CallIds :
          calls[c2].op = "peek" /\ calls[c2].pc = "done" /\ calls[c2].storedStr = KVAbsent

\* C14: getPercentile called with an absent or not-a-number RTT returns null
\* whatever the store holds or does: it returns before any get is issued,
\* also when the stored value is corrupt or the store rejects its calls.
C14_NullRttGivesNull ==
  \A c \in CallIds :
    (calls[c].op = "peek" /\ calls[c].edgeRtt.k \in {"undefined", "NaN"})
    => /\ calls[c].pc = "done"
       /\ calls[c].result = [t |-> "null"]
       /\ calls[c].storedStr = NoValue

C14_Witness ==
  \E c \in CallIds :
    /\ calls[c].op = "peek" /\ calls[c].edgeRtt = RttNaN
    /\ calls[c].result = [t |-> "null"]
    /\ calls[c].partner # 0
    /\ Corrupt(store[Key(today)])

\* the recordRun calls that have completed for day d
RecordedOn(d) == {c \in CallIds : Recorded(c) /\ calls[c].day = d}

\* a finite, non-negative RTT
ValidRtt(edgeRtt) == edgeRtt.k = "num" /\ edgeRtt.h >= 0

\* C15: after n valid RTTs were recorded one at a time for a day that began
\* with no record, samples = n and every buckets[i] is the number of recorded
\* RTTs r with bucketIndex(round(r), bucketEdges) = i; a single recordRun
\* leaves every bucket other than its own as it loaded it.
C15_BucketCounts ==
  /\ \A d \in Days :
       (/\ initial[Key(d)] = KVAbsent /\ store[Key(d)].t = "json"
        /\ \A c \in RecordedOn(d) : ValidRtt(calls[c].edgeRtt))
       => /\ store[Key(d)].samples = Cardinality(RecordedOn(d))
          /\ \A i \in 0..(Len(store[Key(d)].buckets) - 1) :
                store[Key(d)].buckets[i + 1] =
                  Cardinality({c \in RecordedOn(d) :
                     bucketIndex(MathRound(calls[c].edgeRtt.h),
                                 store[Key(d)].bucketEdges) = i})
  /\ \A c \in CallIds :
       (calls[c].op = "record" /\ calls[c].stored # NoValue /\ ValidRtt(calls[c].edgeRtt))
       => LET loaded == LoadStored(calls[c].storedStr)
              idx == bucketIndex(MathRound(calls[c].edgeRtt.h), loaded.bucketEdges)
          IN /\ Len(calls[c].stored.buckets) = Len(loaded.buckets)
             /\ \A i \in 0..(Len(loaded.buckets) - 1) :
                   i # idx => calls[c].stored.buckets[i + 1] = loaded.buckets[i + 1]

C15_Witness ==
  \E d \in Days :
    /\ initial[Key(d)] = KVAbsent /\ store[Key(d)].t = "json"
    /\ \A c \in RecordedOn(d) : ValidRtt(calls[c].edgeRtt)
    /\ store[Key(d)].samples = NumCalls
    /\ store[Key(d)].buckets[2] >= 1
    /\ store[Key(d)].buckets[16] >= 1

\* the location map after is the map before with one sample of h/2 ms from
\* the location name and the country country added to it
EntryUpdated(after, before, name, h, country) ==
  LET pos == ColoPos(before, name)
      now == ColoPos(after, name)
  IN /\ now # 0
     /\ after[now].count = (IF pos = 0 THEN 0 ELSE before[pos].count) + 1
     /\ after[now].sumRtt = (IF pos = 0 THEN 0 ELSE before[pos].sumRtt) + MathRound(h)
     /\ CountryOf(after[now]) = country
     /\ Len(after) = Len(before) + (IF pos = 0 THEN 1 ELSE 0)
     /\ \A i \in 1..Len(before) :
           before[i].name # name => \E j \in 1..Len(after) : after[j] = before[i]
     /\ \A j \in 1..Len(after) :
           after[j].name # name => \E i \in 1..Len(before) : before[i] = after[j]

\* C16: a single recordRun creates the entry of its location when it is
\* missing and otherwise updates it: the entry's count grows by exactly 1,
\* its sumRtt by exactly round(rtt), its country becomes the supplied one,
\* and the entry of every other location is unchanged; this is what the call
\* holds in memory and what its put leaves in the store.
C16_ColoEntryUpdate ==
  \A c \in CallIds :
    (calls[c].op = "record" /\ calls[c].stored # NoValue)
    => LET loaded == LoadStored(calls[c].storedStr)
           name == IF calls[c].cf.colo = Undefined THEN "--" ELSE calls[c].cf.colo
       IN /\ EntryUpdated(calls[c].stored.colo, loaded.colo, name,
                          calls[c].edgeRtt.h, calls[c].cf.country)
          /\ lastPut[Key(calls[c].day)] = c
               => EntryUpdated(store[Key(calls[c].day)].colo, loaded.colo, name,
                               calls[c].edgeRtt.h, calls[c].cf.country)

C16_Witness ==
  \E c \in CallIds :
    /\ Recorded(c) /\ lastPut[Key(calls[c].day)] = c
    /\ calls[c].storedStr.t = "json"
    /\ LET before == calls[c].storedStr.colo
           after == store[Key(calls[c].day)].colo
       IN /\ ColoPos(before, "SJC") # 0
          /\ before[ColoPos(before, "SJC")].country = "CA"
          /\ after[ColoPos(after, "SJC")].country = "US"
          /\ after[ColoPos(after, "SJC")].count = before[ColoPos(before, "SJC")].count + 1
          /\ after[ColoPos(after, "LHR")] = before[ColoPos(before, "LHR")]

\* C17: in the /api flow recordRun is started without being awaited and
\* getPercentile is then awaited for the same RTT; in every interleaving of
\* their store calls the value getPercentile loads does not contain the
\* request's own sample: it was not written by the request's recordRun.
C17_RankExcludesOwnSample ==
  [][\A p \in CallIds :
       (GetResolved(p) /\ calls[p].op = "peek" /\ calls[p].partner # 0)
       => lastPut[Key(calls[p].day)] # calls[p].partner]_vars

\* row is the leaderboard row of the entry e: its name and count, and for a
\* count other than 0 the integer nearest to sumRtt / count
RowOfEntry(row, e) ==
  /\ row.colo = e.name /\ row.count = e.count
  /\ e.count # 0 =>
       /\ row.avgRtt.k = "int"
       /\ 2 * row.avgRtt.v * e.count - 2 * e.sumRtt <= e.count
       /\ 2 * e.sumRtt - 2 * row.avgRtt.v * e.count <= e.count

\* C18: the leaderboard's top-locations list is ordered by sample count,
\* highest first, holds at most 15 entries (the 15 with the highest counts
\* when there are more), and gives for each listed location the average RTT
\* round(sumRtt / count).
C18_TopColos ==
  TopColosApplied =>
    /\ Len(fn.out) <= 15
    /\ Len(fn.out) = (IF Len(fn.colo) < 15 THEN Len(fn.colo) ELSE 15)
    /\ \A i, j \in 1..Len(fn.out) : i < j => fn.out[i].count >= fn.out[j].count
    /\ \A i, j \in 1..Len(fn.out) : i # j => fn.out[i].colo # fn.out[j].colo
    /\ \A i \in 1..Len(fn.out) :
          \E k \in 1..Len(fn.colo) : RowOfEntry(fn.out[i], fn.colo[k])
    /\ \A k \in 1..Len(fn.colo) :
          \/ \E i \in 1..Len(fn.out) : fn.out[i].colo = fn.colo[k].name
          \/ \A i \in 1..Len(fn.out) : fn.out[i].count >= fn.colo[k].count

C18_Witness ==
  /\ TopColosApplied
  /\ Len(fn.colo) = 17 /\ Len(fn.out) = 15
  /\ fn.out[1].count > fn.out[15].count
  /\ fn.out[1].colo # fn.colo[1].name

\* percentileFromHist is non-null on the aggregate for every targetPct in 0..100
NeverNull(agg) ==
  \A pct \in 0..100 :
    percentileFromHist(agg.samples, agg.buckets, agg.bucketEdges, pct) # NullVal

\* C19: every aggregate that recordRun calls produce, in any interleaving,
\* and that has samples > 0 gets a non-null percentile for every targetPct in
\* 0..100; null is returned only for samples <= 0.  Stated of the aggregates
\* the store starts with and of every aggregate a put writes.
C19_PercentileNonNull ==
  /\ \A k \in Keys :
       /\ (store[k].t = "json" /\ store[k].samples > 0) => NeverNull(store[k])
       /\ ~Truthy(store[k]) =>
             \A pct \in 0..100 :
               percentileFromHist(LoadStored(store[k]).samples, LoadStored(store[k]).buckets,
                                  LoadStored(store[k]).bucketEdges, pct) = NullVal
  /\ [][\A c \in CallIds :
          (calls[c].pc = "put" /\ calls'[c].pc = "done")
          => /\ store'[Key(calls[c].day)].samples > 0
             /\ NeverNull(store'[Key(calls[c].day)])]_vars

C19_Witness ==
  \E c1, c2 \in CallIds :
    /\ c1 # c2 /\ Recorded(c1) /\ Recorded(c2)
    /\ calls[c1].day = calls[c2].day
    /\ calls[c1].storedStr = KVAbsent /\ calls[c2].storedStr = KVAbsent
    /\ store[Key(calls[c1].day)].samples = 1
    /\ percentileFromHist(1, store[Key(calls[c1].day)].buckets,
                          store[Key(calls[c1].day)].bucketEdges, 100) = IntVal(1001)

\* the number of samples in the first j groups
RECURSIVE GroupsUpTo(_, _)
GroupsUpTo(groups, j) == IF j = 0 THEN 0 ELSE groups[j] + GroupsUpTo(groups, j - 1)

\* the rank-th smallest recorded RTT, rounded (the groups are in ascending order)
RankthSmallest(groups, rank) ==
  LET j == CHOOSE j \in 1..Len(GroupRtts) :
             /\ GroupsUpTo(groups, j) >= rank
             /\ GroupsUpTo(groups, j - 1) < rank
  IN MathRound(GroupRtts[j])

\* C20: the percentile estimate loses at most one bucket width: for an
\* aggregate built by recording RTTs one at a time and a targetPct in 1..100,
\* with x the ceil(targetPct/100 * samples)-th smallest recorded (rounded)
\* RTT, percentileFromHist returns the upper edge of the bucket containing x,
\* which is at least x, or edges[last] + 1 when x is in the overflow bucket.
C20_EstimateWithinBucket ==
  (EstimateApplied /\ fn.samples > 0) =>
    LET x == RankthSmallest(fn.groups, ExactRank(fn.pct, fn.samples))
        b == SmallestQualifying(x, DEFAULT_EDGES)
    IN /\ fn.out = IntVal(UpperEdge(DEFAULT_EDGES, b))
       /\ b < Len(DEFAULT_EDGES) => x <= fn.out.v

\* the edge set the aggregate under key k was created with
CreatedEdges(k) == IF initial[k].t = "json" THEN initial[k].bucketEdges ELSE DEFAULT_EDGES

\* C21: in every stored aggregate bucketEdges is the edge set the aggregate
\* was created with, recordRun never changes it, there is one bucket more
\* than there are edges, and every bucket count is a non-negative integer.
C21_EdgesFixed ==
  /\ \A k \in Keys :
       store[k].t = "json"
       => /\ store[k].bucketEdges = CreatedEdges(k)
          /\ Len(store[k].buckets) = Len(store[k].bucketEdges) + 1
          /\ \A i \in 1..Len(store[k].buckets) : store[k].buckets[i] \in Nat
  /\ \A c \in CallIds :
       (calls[c].op = "record" /\ calls[c].stored # NoValue)
       => /\ calls[c].stored.bucketEdges = LoadStored(calls[c].storedStr).bucketEdges
          /\ Len(calls[c].stored.buckets) = Len(calls[c].stored.bucketEdges) + 1

C21_Witness ==
  \E k \in Keys :
    /\ initial[k].t = "json" /\ lastPut[k] # 0
    /\ store[k].samples > initial[k].samples
    /\ store[k].buckets[16] > initial[k].buckets[16]
    /\ \E k2 \in Keys : initial[k2] = KVAbsent /\ store[k2].t = "json"
                        /\ store[k2].buckets[1] = 1

\* C22: a recordRun call for day D reads and writes only the key "stats:" + D:
\* its get returns the value of that key, its put replaces the value of that
\* same key, also when the day has changed in between, and no step of the
\* call changes the value stored for any other day.
C22_OnlyOwnDayKey ==
  [][\A c \in CallIds :
       (calls'[c].op = "record" /\ calls'[c] # calls[c])
       => /\ \A k \in Keys \ {Key(calls'[c].day)} :
               store'[k] = store[k] /\ lastPut'[k] = lastPut[k]
          /\ GetResolved(c) => calls'[c].storedStr = store[Key(calls[c].day)]
          /\ (calls[c].pc = "put" /\ calls'[c].pc = "done")
               => /\ store'[Key(calls[c].day)] = JSONStringify(calls[c].stored)
                  /\ lastPut'[Key(calls[c].day)] = c]_vars

C22_Witness ==
  \E c \in CallIds :
    /\ Recorded(c) /\ calls[c].day < today
    /\ lastPut[Key(calls[c].day)] = c
    /\ store[Key(calls[c].day)] = JSONStringify(calls[c].stored)
    /\ store[Key(today)] = KVAbsent
    /\ \E c2 \in CallIds : calls[c2].op = "record" /\ calls[c2].day = today
                           /\ calls[c2].pc = "put"

\* C23: under any interleaving of concurrent recordRun calls for a day, lost
\* updates included, every value stored under the day key satisfies
\* sum(buckets) = samples = sum of colo[loc].count: each put writes the whole
\* aggregate derived from one load.
C23_ConservedUnderInterleaving ==
  /\ \A k \in Keys : store[k].t = "json" => Conserved(store[k])
  /\ \A c \in CallIds :
       (calls[c].op = "record" /\ calls[c].pc = "put") => Conserved(calls[c].stored)

C23_Witness ==
  \E c1, c2 \in CallIds :
    /\ c1 < c2 /\ Recorded(c1) /\ Recorded(c2)
    /\ calls[c1].day = calls[c2].day
    /\ calls[c1].storedStr.t = "json" /\ calls[c2].storedStr = calls[c1].storedStr
    /\ calls[c1].cf # calls[c2].cf
    /\ lastPut[Key(calls[c1].day)] = c1
    /\ store[Key(calls[c1].day)].samples = calls[c1].storedStr.samples + 1
    /\ SumSeq(store[Key(calls[c1].day)].buckets) = store[Key(calls[c1].day)].samples

\* the recordRun calls with a valid RTT that have been started for day d
StartedValid(d) ==
  {c \in CallIds : calls[c].op = "record" /\ ValidRtt(calls[c].edgeRtt) /\ calls[c].day = d}

\* C24: under any interleaving of recordRun calls for a day that starts with
\* no record, the stored samples count never exceeds the number of recordRun
\* calls with a valid RTT (present, finite, not negative) started for the
\* day, and it is at least 1 once such a call has completed its put.
C24_SamplesBounded ==
  \A d \in Days :
    initial[Key(d)] = KVAbsent
    => /\ store[Key(d)].t = "json"
            => store[Key(d)].samples <= Cardinality(StartedValid(d))
       /\ (\E c \in StartedValid(d) : Recorded(c))
            => store[Key(d)].t = "json" /\ store[Key(d)].samples >= 1

\* the RTT of h/2 ms rounds to a value above the last edge
InOverflow(h, edges) == \A i \in 1..Len(edges) : (h + 1) \div 2 > edges[i]

\* C25: against a fixed aggregate with ascending edges getPercentile's
\* fasterThanPct is monotone non-decreasing in the RTT, and when samples > 0
\* and sum(buckets) = samples every RTT in the overflow bucket gets
\* fasterThanPct = 100.
C25_RankMonotone ==
  RankApplied =>
    /\ fn.h1 <= fn.h2 => fn.out1 <= fn.out2
    /\ (fn.samples > 0 /\ SumSeq(fn.buckets) = fn.samples /\ InOverflow(fn.h1, fn.edges))
         => fn.out1 = 100

C25_Witness ==
  /\ RankApplied
  /\ fn.samples = 40 /\ SumSeq(fn.buckets) = 40 /\ fn.buckets[1] = 23
  /\ fn.h1 < fn.h2
  /\ fn.out1 = 57 /\ fn.out2 = 100
  /\ InOverflow(fn.h2, fn.edges) /\ fn.buckets[Len(fn.buckets)] > 0

====
